---- MODULE Spec2Model ----
(***************************************************************************)
(* A model of morelib: RandomList / RandomGenerator (morelib/random.py)    *)
(* and DataList (morelib/util.py).                                         *)
(*                                                                         *)
(* Python floats are modelled as exact rationals <<n, d>> in lowest terms  *)
(* (d > 0).  The [item, weight] lists stored in RandomList.items are       *)
(* mutable objects that several lists can share, so they live in a heap    *)
(* and lists hold references to them.                                      *)
(***************************************************************************)
EXTENDS Integers, Sequences, FiniteSets, TLC

VARIABLES heap, rl, result, ghost, ops, dl, total, biter, sorting

vars == <<heap, rl, result, ghost, ops, dl, total, biter, sorting>>

(***************************************************************************)
(* Bounds of the model.                                                    *)
(***************************************************************************)
MaxLen == 2        \* longest list handed to a constructor
MaxK == 2          \* largest k handed to choice()
MaxOps == 2        \* longest sequence of calls on a RandomList
MaxNexts == 4      \* most next() calls on one RandomGenerator
RndGrid == 2       \* random.uniform(0, t) draws one of t*j/RndGrid, j in 0..RndGrid
MaxDLOps == 2      \* longest sequence of calls on a DataList
MaxArgs == 2       \* longest argument list handed to DataList()/update()

Elems == {"a", "b"}
\* the keyword sets handed to configure(): one keyword, or no_repeat and always_age
ConfigureKwargs ==
    {<<nr, "keep", 0>> : nr \in {"True", "False"}} \cup
    {<<"keep", aa, 0>> : aa \in {"True", "False"}} \cup
    {<<"keep", "keep", 3>>, <<"True", "True", 0>>}
InitWeights == {0, 1, 2}
DEFAULT_AGING_COEF == 2

(***************************************************************************)
(* Rationals.                                                              *)
(***************************************************************************)
RECURSIVE GCD(_, _)
GCD(a, b) == IF b = 0 THEN a ELSE GCD(b, a % b)

Abs(x) == IF x < 0 THEN -x ELSE x

Rat(n, d) ==
    LET s == IF d < 0 THEN -1 ELSE 1
        g == GCD(Abs(n), Abs(d))
    IN  <<(s * n) \div g, (s * d) \div g>>

Zero == <<0, 1>>
RatAdd(x, y) == Rat(x[1] * y[2] + y[1] * x[2], x[2] * y[2])
RatMul(x, y) == Rat(x[1] * y[1], x[2] * y[2])
RatDiv(x, y) == Rat(x[1] * y[2], x[2] * y[1])
RatLT(x, y) == x[1] * y[2] < y[1] * x[2]
RatLE(x, y) == x[1] * y[2] <= y[1] * x[2]

(***************************************************************************)
(* Sequence helpers.                                                       *)
(***************************************************************************)
Range(s) == {s[i] : i \in DOMAIN s}
NoDup(s) == \A i, j \in DOMAIN s : i # j => s[i] # s[j]
Perms(n) == {p \in [1..n -> 1..n] : \A i, j \in 1..n : i # j => p[i] # p[j]}
SeqsUpTo(S, n) == UNION {[1..m -> S] : m \in 0..n}

(***************************************************************************)
(* RandomList: reading the list.                                           *)
(***************************************************************************)
\* elems(): the elements of a list of cells
ElemsOf(h, cells) == [i \in DOMAIN cells |-> h[cells[i]].elem]

\* sum([x[1] for x in cells])
RECURSIVE SumW(_, _)
SumW(h, cells) ==
    IF cells = <<>> THEN Zero
    ELSE RatAdd(h[Head(cells)].weight, SumW(h, Tail(cells)))

\* Allowed without the weight filter of line 337
AllowedAnyWeight(h, items, no_repeat, repeated) ==
    IF no_repeat
    THEN SelectSeq(items, LAMBDA c : h[c].elem \notin Range(repeated))
    ELSE items

\* choice(), the two filters: weight > 0, and not in the repeated list
Allowed(h, items, no_repeat, repeated) ==
    LET positive == SelectSeq(items, LAMBDA c : RatLT(Zero, h[c].weight))
    IN  IF no_repeat
        THEN SelectSeq(positive, LAMBDA c : h[c].elem \notin Range(repeated))
        ELSE positive

\* choice(), the scan of the shuffled list; rmin stays 0.0 throughout
RECURSIVE Scan(_, _, _, _, _)
Scan(h, allowed, i, rmax, rndval) ==
    IF i > Len(allowed) THEN allowed[Len(allowed)]
    ELSE LET rmax2 == RatAdd(rmax, h[allowed[i]].weight)
         IN  IF RatLE(Zero, rndval) /\ RatLT(rndval, rmax2)
             THEN allowed[i]
             ELSE Scan(h, allowed, i + 1, rmax2, rndval)

(***************************************************************************)
(* RandomList: the modificators, as functions of the heap.                 *)
(***************************************************************************)
\* normalize(): a zero sum raises ZeroDivisionError at the first item
NormalizeHeap(h, items) ==
    LET suma == SumW(h, items)
    IN  IF items = <<>> THEN [heap |-> h, raised |-> "none"]
        ELSE IF suma = Zero THEN [heap |-> h, raised |-> "ZeroDivisionError"]
        ELSE [heap |-> [c \in DOMAIN h |->
                          IF c \in Range(items)
                          THEN [h[c] EXCEPT !.weight = RatDiv(@, suma)]
                          ELSE h[c]],
              raised |-> "none"]

\* age(): items not among the last chosen are multiplied, then normalize()
AgeHeap(h, items, last, coef) ==
    LET aged == [c \in DOMAIN h |->
                   IF c \in Range(items) /\ h[c].elem \notin Range(last)
                   THEN [h[c] EXCEPT !.weight = RatMul(@, <<coef, 1>>)]
                   ELSE h[c]]
    IN  NormalizeHeap(aged, items)

\* uniform()
UniformHeap(h, items) ==
    [c \in DOMAIN h |->
       IF c \in Range(items)
       THEN [h[c] EXCEPT !.weight = Rat(1, Len(items))]
       ELSE h[c]]

(***************************************************************************)
(* RandomList.choice()                                                     *)
(***************************************************************************)
\* random.shuffle(allowed) under the permutation p
Shuffled(allowed, p) == [i \in DOMAIN allowed |-> allowed[p[i]]]

\* Lines 349-363: the item the scan stops at, p being the shuffle and j the
\* draw of random.uniform(0.0, total_weight).
PickCell(h, allowed0, p, j) ==
    LET allowed == Shuffled(allowed0, p)
        total_weight == SumW(h, allowed)
        rndval == RatMul(total_weight, Rat(j, RndGrid))
    IN  Scan(h, allowed, 1, Zero, rndval)

\* ChoiceStep without line 369: the choice is not added to `repeated`
ChoiceStepForgets(st, items, no_repeat, age, coef, cell) ==
    LET choice == st.heap[cell].elem
        choices == Append(st.choices, choice)
        aged == IF age THEN AgeHeap(st.heap, items, choices, coef)
                ELSE [heap |-> st.heap, raised |-> "none"]
    IN  [heap |-> aged.heap,
         last |-> choices,
         cache |-> st.cache,
         choices |-> choices,
         drawn |-> Append(st.drawn, st.heap[cell].weight),
         raised |-> aged.raised]

\* Lines 364-371: what one pass of `for _ in range(k)` does with the item
\* picked.  `repeated` is the very list object self._repeated_cache (line
\* 334), so appending to it appends to the cache: st.cache stands for both.
ChoiceStep(st, items, no_repeat, age, coef, cell) ==
    LET choice == st.heap[cell].elem
        choices == Append(st.choices, choice)
        aged == IF age THEN AgeHeap(st.heap, items, choices, coef)
                ELSE [heap |-> st.heap, raised |-> "none"]
    IN  [heap |-> aged.heap,
         last |-> choices,
         cache |-> IF no_repeat THEN Append(st.cache, choice) ELSE st.cache,
         choices |-> choices,
         drawn |-> Append(st.drawn, st.heap[cell].weight),
         raised |-> aged.raised]

\* The k passes of the loop: the set of states the loop can end in.
RECURSIVE ChoiceLoop(_, _, _, _, _, _)
ChoiceLoop(st, n, items, no_repeat, age, coef) ==
    IF n = 0 \/ st.raised # "none" THEN {st}
    ELSE LET allowed == Allowed(st.heap, items, no_repeat, st.cache)
         IN  IF allowed = <<>>
             THEN {[st EXCEPT !.raised = "NoItemsLeftException"]}
             ELSE LET picks == {PickCell(st.heap, allowed, p, j) :
                                  p \in Perms(Len(allowed)), j \in 0..RndGrid}
                  IN  UNION {ChoiceLoop(s, n - 1, items, no_repeat, age, coef) :
                               s \in {ChoiceStep(st, items, no_repeat, age, coef, c) :
                                        c \in picks}}

\* CacheAfter with the cache overwritten by an empty list after the call
CacheDropped(global_no_repeat, cache) == <<>>

\* self._repeated_cache += repeated, with `repeated` the cache itself
CacheAfter(global_no_repeat, cache) ==
    IF global_no_repeat THEN cache \o cache ELSE cache

\* choice(k, no_repeat, age) on the object r over the heap h: the outcomes
ChoiceCall(h, r, k, no_repeat_arg, age_arg) ==
    LET no_repeat == no_repeat_arg \/ r.no_repeat
        age == age_arg \/ r.always_age
        st0 == [heap |-> h, last |-> r.last, cache |-> r.repeated_cache,
                choices |-> <<>>, drawn |-> <<>>, raised |-> "none"]
    IN  {[heap |-> st.heap,
          obj |-> [r EXCEPT !.last = st.last,
                            !.repeated_cache =
                                IF st.raised = "none"
                                THEN CacheAfter(r.no_repeat, st.cache)
                                ELSE st.cache],
          ret |-> IF st.raised = "none" THEN st.choices ELSE <<>>,
          drawn |-> st.drawn,
          no_repeat |-> no_repeat,
          raised |-> st.raised] :
           st \in ChoiceLoop(st0, k, r.items, no_repeat, age, r.aging_coef)}

(***************************************************************************)
(* State of the RandomList model.                                          *)
(*   heap    the [item, weight] lists, by reference                        *)
(*   rl      the fields of the RandomList ("list") and of the              *)
(*           RandomGenerator get_generator() made from it ("gen")          *)
(*   result  the last call: its arguments, what it returned or raised      *)
(*   ghost   history kept for stating properties; the program has no such  *)
(*           fields                                                        *)
(*   ops     number of calls made so far                                   *)
(***************************************************************************)
Objs == {"list", "gen"}

\* RandomList.__init__, lines 153-162, before any argument is read.
\* _backup: None and [] are both modelled <<>> (line 451 reads only its truth
\* value).  repeated: whether reset_repeated() has created the attribute.
NewRandomList ==
    [exists |-> FALSE, items |-> <<>>, last |-> <<>>, no_repeat |-> FALSE,
     repeated_cache |-> <<>>, always_age |-> FALSE,
     aging_coef |-> DEFAULT_AGING_COEF, backup |-> <<>>, repeated |-> FALSE]

\* configure(**kwargs); "keep" stands for an absent keyword, coef 0 likewise
ConfigureObj(r, nr, aa, coef) ==
    LET no_repeat == IF nr = "keep" THEN r.no_repeat ELSE (nr = "True")
        always_age == IF aa = "keep" THEN r.always_age ELSE (aa = "True")
    IN  [r EXCEPT !.no_repeat = no_repeat,
                  !.always_age = always_age,
                  !.aging_coef = IF coef = 0 THEN @ ELSE coef,
                  !.backup = IF always_age THEN r.items ELSE @]

Result(op, obj, k, nr, age, ret, raised, drawn) ==
    [op |-> op, obj |-> obj, k |-> k, no_repeat |-> nr, age |-> age,
     ret |-> ret, raised |-> raised, drawn |-> drawn]

\* the (element, weight) pairs of a list, by value
Values(h, items) == [i \in DOMAIN items |-> <<h[items[i]].elem, h[items[i]].weight>>]

NoGen == [nexts |-> 0, stops |-> 0, yielded |-> <<>>, pure |-> FALSE, n |-> 0]

\* DataList state outside the DataList specification
NoDataList == <<>>

\* Biter and multisorted() state outside their specifications
NoBiter == [iter |-> <<>>, pos |-> 0, current |-> "none"]
NoSorting == [l |-> <<>>, key |-> <<>>, reverse |-> FALSE, returned |-> <<>>]

\* RandomList([(item, weight), ...], no_repeat=..., always_age=...)
InitRL ==
    \E pairs \in SeqsUpTo(Elems \X InitWeights, MaxLen), nr, aa \in {"True", "False"} :
        LET items == [i \in DOMAIN pairs |-> i]
            h == [i \in DOMAIN pairs |->
                    [elem |-> pairs[i][1], weight |-> <<pairs[i][2], 1>>]]
            r == ConfigureObj([NewRandomList EXCEPT !.exists = TRUE, !.items = items],
                              nr, aa, 0)
        IN  /\ heap = h
            /\ rl = [o \in Objs |-> IF o = "list" THEN r ELSE NewRandomList]
            /\ result = Result("init", "list", 0, FALSE, FALSE, <<>>, "none", <<>>)
            /\ ghost = [hist |-> [o \in Objs |-> <<>>],
                        snap |-> [o \in Objs |-> IF o = "list" /\ r.always_age
                                                 THEN Values(h, items) ELSE <<>>],
                        only_choice |-> [o \in Objs |-> TRUE],
                        gen |-> NoGen]
            /\ ops = 0
            /\ dl = NoDataList
            /\ total = 0
            /\ biter = NoBiter
            /\ sorting = NoSorting

Live(o) == rl[o].exists /\ ops < MaxOps

\* every call but next() on the generator ends the run of bare next() calls
Touch(g) == [g EXCEPT !.gen.pure = FALSE]

\* a call on o other than choice(); snapshot tells whether it made a backup
Other(g, o, snapshot) == [Touch(g) EXCEPT !.only_choice[o] = snapshot]

Step == /\ ops' = ops + 1
        /\ UNCHANGED <<dl, total, biter, sorting>>

\* choice(k, no_repeat, age)
Choice(o) ==
    /\ Live(o)
    /\ \E k \in 0..MaxK, nr, age \in BOOLEAN :
         \E out \in ChoiceCall(heap, rl[o], k, nr, age) :
            /\ heap' = out.heap
            /\ rl' = [rl EXCEPT ![o] = out.obj]
            /\ result' = Result("choice", o, k, nr, age, out.ret, out.raised, out.drawn)
            /\ ghost' = [Touch(ghost) EXCEPT !.hist[o] = @ \o out.ret]
    /\ Step

\* RandomGenerator.send(None), which is what next(gen) calls
Send ==
    /\ rl["gen"].exists
    /\ ghost.gen.nexts < MaxNexts
    /\ \E out \in ChoiceCall(heap, rl["gen"], 1, FALSE, FALSE) :
         LET raised == IF out.raised = "NoItemsLeftException"
                       THEN "StopIteration" ELSE out.raised
         IN  /\ heap' = out.heap
             /\ rl' = [rl EXCEPT !["gen"] = out.obj]
             /\ result' = Result("next", "gen", 1, FALSE, FALSE, out.ret, raised, out.drawn)
             /\ ghost' = [ghost EXCEPT
                            !.hist["gen"] = @ \o out.ret,
                            !.gen.nexts = @ + 1,
                            !.gen.stops = IF raised = "StopIteration" THEN @ + 1 ELSE @,
                            !.gen.yielded = @ \o out.ret]
    /\ Step

\* get_generator()
GetGenerator ==
    /\ Live("list")
    /\ LET src == rl["list"]
           g == [NewRandomList EXCEPT !.exists = TRUE, !.items = src.items,
                                      !.no_repeat = src.no_repeat,
                                      !.always_age = src.always_age,
                                      !.aging_coef = src.aging_coef]
       IN  /\ rl' = [rl EXCEPT !["gen"] = g]
           /\ ghost' = [ghost EXCEPT
                          !.hist["gen"] = <<>>,
                          !.only_choice["gen"] = TRUE,
                          !.snap["gen"] = IF g.always_age
                                          THEN Values(heap, g.items) ELSE <<>>,
                          !.gen = [nexts |-> 0, stops |-> 0, yielded |-> <<>>,
                                   pure |-> TRUE,
                                   n |-> Cardinality(Range(ElemsOf(heap,
                                           Allowed(heap, g.items, FALSE, <<>>))))]]
    /\ result' = Result("get_generator", "list", 0, FALSE, FALSE, <<>>, "none", <<>>)
    /\ UNCHANGED heap
    /\ Step

Plain(op, o, raised) == Result(op, o, 0, FALSE, FALSE, <<>>, raised, <<>>)

\* append(item, weight) with the weight given; it ends with self.configure()
AppendObj(r, cell) == ConfigureObj([r EXCEPT !.items = Append(@, cell)], "keep", "keep", 0)

RLAppend(o) ==
    /\ Live(o)
    /\ \E item \in Elems, weight \in InitWeights :
         LET cell == Len(heap) + 1
             h == Append(heap, [elem |-> item, weight |-> <<weight, 1>>])
             r == AppendObj(rl[o], cell)
         IN  /\ heap' = h
             /\ rl' = [rl EXCEPT ![o] = r]
             /\ ghost' = [Other(ghost, o, r.always_age) EXCEPT
                            !.snap[o] = IF r.always_age THEN Values(h, r.items) ELSE @]
    /\ result' = Plain("append", o, "none")
    /\ Step

\* remove(req): the first item whose element is req, or ValueError
RemoveFirst(h, items, req) ==
    LET hits == {i \in DOMAIN items : h[items[i]].elem = req}
        first == CHOOSE i \in hits : \A j \in hits : i <= j
    IN  IF hits = {} THEN items
        ELSE [i \in 1..(Len(items) - 1) |-> IF i < first THEN items[i] ELSE items[i + 1]]

RLRemove(o) ==
    /\ Live(o)
    /\ \E req \in Elems :
         /\ rl' = [rl EXCEPT ![o].items = RemoveFirst(heap, @, req)]
         /\ result' = Plain("remove", o,
                            IF req \in Range(ElemsOf(heap, rl[o].items))
                            THEN "none" ELSE "ValueError")
    /\ ghost' = Other(ghost, o, FALSE)
    /\ UNCHANGED heap
    /\ Step

\* uniform()
Uniform(o) ==
    /\ Live(o)
    /\ heap' = UniformHeap(heap, rl[o].items)
    /\ result' = Plain("uniform", o, "none")
    /\ ghost' = Other(ghost, o, FALSE)
    /\ UNCHANGED rl
    /\ Step

\* normalize()
Normalize(o) ==
    /\ Live(o)
    /\ LET out == NormalizeHeap(heap, rl[o].items)
       IN  /\ heap' = out.heap
           /\ result' = Plain("normalize", o, out.raised)
    /\ ghost' = Other(ghost, o, FALSE)
    /\ UNCHANGED rl
    /\ Step

\* age()
Age(o) ==
    /\ Live(o)
    /\ LET out == AgeHeap(heap, rl[o].items, rl[o].last, rl[o].aging_coef)
       IN  /\ heap' = out.heap
           /\ result' = Plain("age", o, out.raised)
    /\ ghost' = Other(ghost, o, FALSE)
    /\ UNCHANGED rl
    /\ Step

\* configure(no_repeat=..., always_age=..., aging_coef=...)
Configure(o) ==
    /\ Live(o)
    /\ \E kw \in ConfigureKwargs :
         LET r == ConfigureObj(rl[o], kw[1], kw[2], kw[3])
         IN  /\ rl' = [rl EXCEPT ![o] = r]
             /\ ghost' = [Other(ghost, o, r.always_age) EXCEPT
                            !.hist[o] = IF r.no_repeat /\ ~rl[o].no_repeat THEN <<>> ELSE @,
                            !.snap[o] = IF r.always_age THEN Values(heap, r.items) ELSE @]
    /\ result' = Plain("configure", o, "none")
    /\ UNCHANGED heap
    /\ Step

\* reset_repeated(): assigns self.repeated, an attribute nothing reads
ResetRepeatedObj(r) == [r EXCEPT !.repeated = TRUE]

ResetRepeated(o) ==
    /\ Live(o)
    /\ rl' = [rl EXCEPT ![o] = ResetRepeatedObj(@)]
    /\ result' = Plain("reset_repeated", o, "none")
    /\ ghost' = [Other(ghost, o, FALSE) EXCEPT !.hist[o] = <<>>]
    /\ UNCHANGED heap
    /\ Step

\* reset_aging()
ResetAgingObj(r) ==
    IF r.backup # <<>> THEN [r EXCEPT !.items = r.backup, !.backup = <<>>] ELSE r

ResetAging(o) ==
    /\ Live(o)
    /\ rl' = [rl EXCEPT ![o] = ResetAgingObj(@)]
    /\ result' = Plain("reset_aging", o, "none")
    /\ ghost' = Other(ghost, o, FALSE)
    /\ UNCHANGED heap
    /\ Step

\* The RandomList alone.
NextRL ==
    \/ Choice("list")
    \/ RLAppend("list")
    \/ RLRemove("list")
    \/ Uniform("list")
    \/ Normalize("list")
    \/ Age("list")
    \/ Configure("list")
    \/ ResetRepeated("list")
    \/ ResetAging("list")

SpecRL == InitRL /\ [][NextRL]_vars

\* A RandomGenerator made from the RandomList and iterated with next().
NextGen ==
    \/ GetGenerator
    \/ Send

SpecGen == InitRL /\ [][NextGen]_vars

(***************************************************************************)
(* Properties of RandomList and RandomGenerator.                           *)
(***************************************************************************)
\* the elements of o that choice() could return if nothing had been chosen yet
PositiveElems(o) == Range(ElemsOf(heap, Allowed(heap, rl[o].items, FALSE, <<>>)))

\* the items of o that a choice(no_repeat=True) call would choose among
Eligible(o) == Allowed(heap, rl[o].items, TRUE, rl[o].repeated_cache)

\* C1: with no_repeat=True configured, the elements choice() has returned
\* since then are pairwise different, and a choice() with k >= 1 made when
\* every positive-weight element has been returned raises
\* NoItemsLeftException.
C1_NoRepeatNeverRepeats ==
    [][/\ rl'["list"].no_repeat => NoDup(ghost'.hist["list"])
       /\ ( /\ rl["list"].no_repeat
            /\ PositiveElems("list") \subseteq Range(ghost.hist["list"])
            /\ result'.op = "choice"
            /\ result'.k >= 1 )
          => result'.raised = "NoItemsLeftException"]_vars

\* C1 witness: both elements were returned and the next choice() raised
C1_Witness ==
    /\ rl["list"].no_repeat
    /\ result.op = "choice" /\ result.k >= 1
    /\ result.raised = "NoItemsLeftException"
    /\ Range(ghost.hist["list"]) = Elems
    /\ PositiveElems("list") = Elems

\* C2: after reset_repeated() on a list with no_repeat=True every
\* positive-weight item is eligible again.
C2_ResetRepeatedRestoresAll ==
    (result.op = "reset_repeated" /\ rl[result.obj].no_repeat)
        => Eligible(result.obj) = Allowed(heap, rl[result.obj].items, FALSE, <<>>)

\* C3: on a list with always_age=True, after choice() calls alone,
\* reset_aging() leaves every item with the weight it had when always_age
\* was configured.
C3_ResetAgingRestoresWeights ==
    [][(/\ result'.op = "reset_aging"
        /\ rl["list"].always_age /\ rl["list"].backup # <<>>
        /\ ghost.only_choice["list"])
          => Values(heap', rl'["list"].items) = ghost.snap["list"]]_vars

\* C4: choice(k, no_repeat=True) on a list whose global no_repeat is False
\* returns no element twice and leaves eligible for a later
\* choice(no_repeat=True) every item that was eligible before the call.
C4_LocalNoRepeatLeavesNoTrace ==
    [][(result'.op = "choice" /\ result'.no_repeat /\ ~rl["list"].no_repeat)
          => /\ NoDup(result'.ret)
             /\ Eligible("list")' = Eligible("list")]_vars

\* C5: choice(k) returns exactly k elements of the list, each drawn from an
\* item whose weight was > 0 when it was drawn, or raises
\* NoItemsLeftException with no eligible positive-weight item left.
C5_ChoiceReturnsPositiveWeight ==
    result.op = "choice" =>
        LET r == rl[result.obj]
        IN  \/ /\ result.raised = "none"
               /\ Len(result.ret) = result.k
               /\ Len(result.drawn) = result.k
               /\ \A i \in 1..result.k :
                    /\ RatLT(Zero, result.drawn[i])
                    /\ result.ret[i] \in Range(ElemsOf(heap, r.items))
            \/ /\ result.raised = "NoItemsLeftException"
               /\ Allowed(heap, r.items, result.no_repeat \/ r.no_repeat,
                          r.repeated_cache) = <<>>

\* C5 witness: a choice(2) that returned two elements of a list holding a
\* zero-weight item
C5_Witness ==
    /\ result.op = "choice" /\ result.k = 2 /\ result.raised = "none"
    /\ Len(result.ret) = 2
    /\ \E c \in Range(rl["list"].items) : heap[c].weight = Zero

\* C6: a generator with no_repeat=True made from a list with n distinct
\* positive-weight elements yields, over repeated next(), each element at
\* most once, and has raised StopIteration by the (n+1)-th call.
C6_GeneratorStops ==
    (rl["gen"].exists /\ rl["gen"].no_repeat /\ ghost.gen.pure) =>
        /\ NoDup(ghost.gen.yielded)
        /\ Len(ghost.gen.yielded) <= ghost.gen.n
        /\ ghost.gen.nexts >= ghost.gen.n + 1 => ghost.gen.stops >= 1

\* C6 witness: two elements yielded, the third next() raised StopIteration
C6_Witness ==
    /\ rl["gen"].exists /\ rl["gen"].no_repeat /\ ghost.gen.pure
    /\ ghost.gen.n = 2 /\ ghost.gen.nexts = 3 /\ ghost.gen.stops = 1
    /\ Len(ghost.gen.yielded) = 2
    /\ result.op = "next" /\ result.raised = "StopIteration"

(***************************************************************************)
(* DataList (morelib/util.py).                                             *)
(*   dl     self._items: the _DataItem objects, in order                   *)
(*   total  self._total                                                    *)
(* A key is a record: int tells whether isinstance(key, int) holds, v      *)
(* tells the keys of one kind apart.  Counts are whole numbers; a weight   *)
(* is a rational, or None.                                                 *)
(***************************************************************************)
StrKey(n) == [int |-> FALSE, v |-> n]
IntKey(n) == [int |-> TRUE, v |-> n]
Keys == {StrKey(0), IntKey(0), IntKey(1)}
\* the counts handed to add(), subtract() and set(); a negative one gives 0
DLCounts == {-1, 1, 2}
None == <<0, 0>>

\* the first position of key in items, 0 if there is none
IndexOf(items, key) ==
    LET hits == {i \in DOMAIN items : items[i].item = key}
    IN  IF hits = {} THEN 0 ELSE CHOOSE i \in hits : \A j \in hits : i <= j

\* add() that overrides the count of an existing item
AddOverrides(items, new_item, init_count) ==
    LET c == IF init_count < 0 THEN 0 ELSE init_count
        i == IndexOf(items, new_item)
    IN  IF i # 0 THEN [items EXCEPT ![i].count = c]
        ELSE Append(items, [item |-> new_item, count |-> c, weight |-> None])

\* add(new_item, init_count)
Add(items, new_item, init_count) ==
    LET c == IF init_count < 0 THEN 0 ELSE init_count
        i == IndexOf(items, new_item)
    IN  IF i # 0 THEN [items EXCEPT ![i].count = @ + c]
        ELSE Append(items, [item |-> new_item, count |-> c, weight |-> None])

RECURSIVE SumCounts(_)
SumCounts(items) ==
    IF items = <<>> THEN 0 ELSE Head(items).count + SumCounts(Tail(items))

\* _weight_update(): the new _items and _total
WeightUpdate(items) ==
    LET t == SumCounts(items)
    IN  [items |-> [i \in DOMAIN items |->
                      [items[i] EXCEPT !.weight =
                          IF t = 0 THEN Zero ELSE Rat(items[i].count, t)]],
         total |-> t]

\* _item_only_update() with one argument, a list of (item, count) tuples
RECURSIVE ItemOnlyUpdate(_, _)
ItemOnlyUpdate(items, args) ==
    IF args = <<>> THEN items
    ELSE ItemOnlyUpdate(Add(items, Head(args)[1], Head(args)[2]), Tail(args))

\* the loop of subtract(old_item, cnt); del is the removal of the item
Subtracted(items, old_item, cnt_is_none, cnt) ==
    LET i == IndexOf(items, old_item)
    IN  IF i = 0 THEN items
        ELSE IF cnt_is_none
        THEN [j \in 1..(Len(items) - 1) |-> IF j < i THEN items[j] ELSE items[j + 1]]
        ELSE [items EXCEPT ![i].count = @ - cnt]

\* the loop of clear()
Cleared(items) == [i \in DOMAIN items |-> [items[i] EXCEPT !.count = 0]]

\* set(key, value) up to the call of _weight_update().  When the key is not
\* found the loop variable `dataitem` is still bound to the last item, which
\* is what line 651 assigns to; on an empty list it is unbound and the
\* assignment raises NameError, which `except IndexError` does not catch.
SetItems(items, key, value) ==
    LET v == IF value < 0 THEN 0 ELSE value
        i == IndexOf(items, key)
    IN  IF i # 0 THEN [items |-> [items EXCEPT ![i].count = v], raised |-> "none"]
        ELSE IF key.int
        THEN IF items = <<>> THEN [items |-> items, raised |-> "NameError"]
             ELSE [items |-> [items EXCEPT ![Len(items)].count = v], raised |-> "none"]
        ELSE [items |-> items, raised |-> "none"]

\* DataList(): the fields before update() runs
InitDL ==
    /\ dl = <<>>
    /\ total = 0
    /\ heap = <<>>
    /\ rl = [o \in Objs |-> NewRandomList]
    /\ result = Plain("init", "datalist", "none")
    /\ ghost = [hist |-> [o \in Objs |-> <<>>], snap |-> [o \in Objs |-> <<>>],
                only_choice |-> [o \in Objs |-> TRUE], gen |-> NoGen]
    /\ ops = 0
    /\ biter = NoBiter
    /\ sorting = NoSorting

DLFrame(op, raised) ==
    /\ ops < MaxDLOps
    /\ ops' = ops + 1
    /\ result' = Plain(op, "datalist", raised)
    /\ UNCHANGED <<heap, rl, ghost, biter, sorting>>

\* update(args), which is also what the constructor runs on its arguments
DLUpdate(args) ==
    LET out == WeightUpdate(ItemOnlyUpdate(dl, args))
    IN  /\ dl' = out.items
        /\ total' = out.total
        /\ DLFrame("update", "none")

\* add(new_item, init_count): no _weight_update()
DLAdd(new_item, init_count) ==
    /\ dl' = Add(dl, new_item, init_count)
    /\ UNCHANGED total
    /\ DLFrame("add", "none")

\* subtract(old_item, cnt)
DLSubtract(old_item, cnt_is_none, cnt) ==
    LET out == WeightUpdate(Subtracted(dl, old_item, cnt_is_none, cnt))
    IN  /\ dl' = out.items
        /\ total' = out.total
        /\ DLFrame("subtract", "none")

\* clear()
DLClear ==
    LET out == WeightUpdate(Cleared(dl))
    IN  /\ dl' = out.items
        /\ total' = out.total
        /\ DLFrame("clear", "none")

\* set(key, value), and __setitem__
DLSet(key, value) ==
    LET done == SetItems(dl, key, value)
        out == WeightUpdate(done.items)
    IN  /\ dl' = IF done.raised = "none" THEN out.items ELSE dl
        /\ total' = IF done.raised = "none" THEN out.total ELSE total
        /\ DLFrame("set", done.raised)

\* get(key): _weight_update() runs only for a key that is no item and no int
DLGet(key) ==
    LET out == WeightUpdate(dl)
        updates == IndexOf(dl, key) = 0 /\ ~key.int
    IN  /\ dl' = IF updates THEN out.items ELSE dl
        /\ total' = IF updates THEN out.total ELSE total
        /\ DLFrame("get", "none")

\* the (item, count) lists handed to update() and to the constructor
DLArgs == SeqsUpTo({StrKey(0), IntKey(0)} \X {-1, 2}, MaxArgs)

NextDL ==
    \/ \E args \in DLArgs : DLUpdate(args)
    \/ \E key \in Keys, c \in DLCounts : DLAdd(key, c)
    \/ \E key \in Keys, none \in BOOLEAN, c \in DLCounts : DLSubtract(key, none, c)
    \/ DLClear
    \/ \E key \in Keys, v \in DLCounts : DLSet(key, v)
    \/ \E key \in Keys : DLGet(key)

SpecDL == InitDL /\ [][NextDL]_vars

(***************************************************************************)
(* Properties of DataList.                                                 *)
(***************************************************************************)
ItemCounts(items) == [i \in DOMAIN items |-> <<items[i].item, items[i].count>>]

Max0(c) == IF c < 0 THEN 0 ELSE c

\* the count of key in items, 0 when it is no item
CountOf(items, key) ==
    IF IndexOf(items, key) = 0 THEN 0 ELSE items[IndexOf(items, key)].count

\* C7: total() is the sum of the counts and every weight is count / total,
\* 0.0 when the total is 0.
C7_TotalAndWeightsCurrent ==
    /\ total = SumCounts(dl)
    /\ \A i \in DOMAIN dl :
         dl[i].weight = IF total = 0 THEN Zero ELSE Rat(dl[i].count, total)

\* C8: subtract(item, cnt) with a cnt leaves the item with
\* max(0, count - cnt), and no count is ever negative.
C8_SubtractFixedToZero ==
    [][/\ \A key \in Keys, c \in DLCounts :
            DLSubtract(key, FALSE, c) =>
                \A i \in DOMAIN dl :
                    dl[i].item = key => dl'[i].count = Max0(dl[i].count - c)
       /\ \A i \in DOMAIN dl' : dl'[i].count >= 0]_vars

\* what set(key, value) is claimed to leave, as (item, count) pairs
SetClaim(ic, key, value) ==
    LET hits == {i \in DOMAIN ic : ic[i][1] = key}
        pos == key.v + 1
    IN  IF hits # {}
        THEN [i \in DOMAIN ic |-> IF i \in hits THEN <<key, Max0(value)>> ELSE ic[i]]
        ELSE IF key.int /\ pos \in DOMAIN ic
        THEN [ic EXCEPT ![pos] = <<ic[pos][1], Max0(value)>>]
        ELSE Append(ic, <<key, Max0(value)>>)

\* C9: set(key, value) gives the item equal to key the count value (0 for a
\* negative value); failing that, for an integer key, the item at position
\* key; failing that, it adds key with count value.  No other count changes.
C9_SetForcesCount ==
    [][\A key \in Keys, value \in DLCounts :
          DLSet(key, value) => ItemCounts(dl') = SetClaim(ItemCounts(dl), key, value)]_vars

\* what add(item, c) is claimed to leave, as (item, count) pairs
AddClaim(ic, key, c) ==
    LET hits == {i \in DOMAIN ic : ic[i][1] = key}
    IN  IF hits # {}
        THEN [i \in DOMAIN ic |->
                IF i \in hits THEN <<key, ic[i][2] + Max0(c)>> ELSE ic[i]]
        ELSE Append(ic, <<key, Max0(c)>>)

\* the sum of the counts given for key in an argument list, negatives as 0
RECURSIVE Given(_, _)
Given(args, key) ==
    IF args = <<>> THEN 0
    ELSE (IF Head(args)[1] = key THEN Max0(Head(args)[2]) ELSE 0)
         + Given(Tail(args), key)

\* C10: add(item, c) appends a new item with count c and adds c to the
\* count of an existing one (a negative c as 0); update(), which the
\* constructor runs, adds up the counts given for a key, repeated or already
\* an item.
C10_AddAccumulates ==
    [][/\ \A key \in Keys, c \in DLCounts :
            (result'.op = "add" /\ DLAdd(key, c))
                => ItemCounts(dl') = AddClaim(ItemCounts(dl), key, c)
       /\ \A args \in DLArgs :
            (result'.op = "update" /\ DLUpdate(args)) =>
                \A key \in Keys :
                    /\ CountOf(dl', key) = CountOf(dl, key) + Given(args, key)
                    /\ IndexOf(dl', key) # 0
                         <=> (IndexOf(dl, key) # 0
                              \/ \E i \in DOMAIN args : args[i][1] = key)]_vars

\* C10 witness: DataList([(k, 2), (k, 2)]) holds k once, with count 4
C10_Witness ==
    /\ ops = 1 /\ result.op = "update"
    /\ Len(dl) = 1 /\ dl[1].count = 4 /\ total = 4

(***************************************************************************)
(* Biter (util.py): a bidirectional iterator over a copy of an iterable.   *)
(***************************************************************************)
MaxIter == 3       \* longest iterable handed to Biter()

\* Python's s[i] on a list, for the i it accepts (-len <= i < len)
PyIndex(s, i) == IF i >= 0 THEN s[i + 1] ELSE s[Len(s) + i + 1]

\* Python's s[i:] and s[i::-1] on a list
SliceFrom(s, i) ==
    LET start == IF i >= 0 THEN i ELSE IF Len(s) + i >= 0 THEN Len(s) + i ELSE 0
    IN  IF start >= Len(s) THEN <<>> ELSE SubSeq(s, start + 1, Len(s))
SliceBackFrom(s, i) ==
    LET at == IF i >= 0 THEN i ELSE Len(s) + i
        start == IF at >= Len(s) THEN Len(s) - 1 ELSE at
    IN  IF start < 0 THEN <<>> ELSE [n \in 1..(start + 1) |-> s[start + 2 - n]]

\* the guards of next() and prev(), and has_next() and has_prev()
NextRaises(b) == (b.pos + 1) >= Len(b.iter)
PrevRaises(b) == (b.pos - 1) < 0
HasNext(b) == (b.pos + 1) < Len(b.iter)
HasPrev(b) == (b.pos - 1) >= 0

\* the position moved by d, with the element read there
MovedBy(b, d) == [b EXCEPT !.pos = b.pos + d, !.current = PyIndex(b.iter, b.pos + d)]

BiterFrame(op, ret, raised) ==
    /\ result' = Result(op, "biter", 0, FALSE, FALSE, ret, raised, <<>>)
    /\ UNCHANGED <<heap, rl, ghost, ops, dl, total, sorting>>

\* Biter(iterable, pos): an empty iterable or a pos outside -len..len-1 raises
\* IndexError and leaves no object
InitBiter ==
    \E iterable \in SeqsUpTo(Elems, MaxIter) \ {<<>>} :
        \E pos \in (0 - Len(iterable))..(Len(iterable) - 1) :
            /\ biter = [iter |-> iterable, pos |-> pos, current |-> PyIndex(iterable, pos)]
            /\ sorting = NoSorting
            /\ heap = <<>>
            /\ rl = [o \in Objs |-> NewRandomList]
            /\ result = Plain("init", "biter", "none")
            /\ ghost = [hist |-> [o \in Objs |-> <<>>], snap |-> [o \in Objs |-> <<>>],
                        only_choice |-> [o \in Objs |-> TRUE], gen |-> NoGen]
            /\ ops = 0
            /\ dl = NoDataList
            /\ total = 0

BiterNext ==
    IF NextRaises(biter)
    THEN UNCHANGED biter /\ BiterFrame("next", <<>>, "StopIteration")
    ELSE biter' = MovedBy(biter, 1) /\ BiterFrame("next", <<>>, "none")

BiterPrev ==
    IF PrevRaises(biter)
    THEN UNCHANGED biter /\ BiterFrame("prev", <<>>, "StopIteration")
    ELSE biter' = MovedBy(biter, -1) /\ BiterFrame("prev", <<>>, "none")

BiterHasNext == UNCHANGED biter /\ BiterFrame("has_next", <<HasNext(biter)>>, "none")
BiterHasPrev == UNCHANGED biter /\ BiterFrame("has_prev", <<HasPrev(biter)>>, "none")

\* forward(pos) and backward(pos); pos = 0 stands for None as well (pos or self._pos)
BiterForward(pos) ==
    LET from == IF pos = 0 THEN biter.pos ELSE pos
    IN  UNCHANGED biter /\ BiterFrame("forward", SliceFrom(biter.iter, from), "none")
BiterBackward(pos) ==
    LET from == IF pos = 0 THEN biter.pos ELSE pos
    IN  UNCHANGED biter /\ BiterFrame("backward", SliceBackFrom(biter.iter, from), "none")

NextBiter ==
    \/ BiterNext
    \/ BiterPrev
    \/ BiterHasNext
    \/ BiterHasPrev
    \/ \E pos \in 0..(MaxIter - 1) : BiterForward(pos)
    \/ \E pos \in 0..(MaxIter - 1) : BiterBackward(pos)

SpecBiter == InitBiter /\ [][NextBiter]_vars

\* where the current element sits in the iterable, counted from 0
ElemIndex(b) == IF b.pos >= 0 THEN b.pos ELSE Len(b.iter) + b.pos

\* C11: next() moves to the next element and prev() to the previous one; each
\* raises StopIteration, leaving position and current unchanged, exactly when the
\* current element is the last / the first one; and has_next() (has_prev()) is
\* True exactly when next() (prev()) would not raise.
C11_BiterMoves ==
    /\ [](HasNext(biter) <=> ~NextRaises(biter))
    /\ [](HasPrev(biter) <=> ~PrevRaises(biter))
    /\ [][/\ result'.op = "next" =>
               IF ElemIndex(biter) = Len(biter.iter) - 1
               THEN result'.raised = "StopIteration" /\ biter' = biter
               ELSE /\ result'.raised = "none"
                    /\ ElemIndex(biter') = ElemIndex(biter) + 1
                    /\ biter'.current = biter.iter[ElemIndex(biter) + 2]
          /\ result'.op = "prev" =>
               IF ElemIndex(biter) = 0
               THEN result'.raised = "StopIteration" /\ biter' = biter
               ELSE /\ result'.raised = "none"
                    /\ ElemIndex(biter') = ElemIndex(biter) - 1
                    /\ biter'.current = biter.iter[ElemIndex(biter)]]_vars

(***************************************************************************)
(* multisorted() and ranked() (util.py).  The items sorted are triples of  *)
(* small integers; a key function reads one field or is the identity, and  *)
(* a key value is a tuple of integers, compared as Python compares tuples. *)
(***************************************************************************)
MaxSortLen == 3    \* longest list handed to multisorted()
MaxKeys == 2       \* longest list of keys handed to multisorted()

SortItems == (0..1) \X (0..1) \X (0..1)
KeyFunctions == {"first", "second"}
\* key=None, key=f, key=[f1, ..., fn]
KeyArgs ==
    {[kind |-> "None", fns |-> <<>>]} \cup
    {[kind |-> "function", fns |-> <<f>>] : f \in KeyFunctions} \cup
    {[kind |-> "list", fns |-> fs] : fs \in SeqsUpTo(KeyFunctions, MaxKeys)}

\* key(x) for the key functions of the model
KeyOf(fn, x) ==
    CASE fn = "first" -> <<x[1]>>
      [] fn = "second" -> <<x[2]>>
      [] fn = "identity" -> x

\* a < b on tuples of integers of one length
TupleLT(a, b) ==
    \E i \in DOMAIN a : a[i] < b[i] /\ \A j \in 1..(i - 1) : a[j] = b[j]

\* sorted(l, key=fn, reverse=reverse): stable, and with reverse=True the items
\* of equal key still keep the order they have in l
RECURSIVE Inserted(_, _, _, _)
Inserted(acc, x, fn, reverse) ==
    IF acc = <<>> THEN <<x>>
    ELSE LET before == IF reverse THEN TupleLT(KeyOf(fn, Head(acc)), KeyOf(fn, x))
                       ELSE TupleLT(KeyOf(fn, x), KeyOf(fn, Head(acc)))
         IN  IF before THEN <<x>> \o acc
             ELSE <<Head(acc)>> \o Inserted(Tail(acc), x, fn, reverse)

RECURSIVE SortedFrom(_, _, _, _)
SortedFrom(acc, l, fn, reverse) ==
    IF l = <<>> THEN acc
    ELSE SortedFrom(Inserted(acc, Head(l), fn, reverse), Tail(l), fn, reverse)

Sorted(l, fn, reverse) == SortedFrom(<<>>, l, fn, reverse)

\* the loop of ranked(): chains of neighbours of equal key
RECURSIVE Chains(_, _, _, _)
Chains(rest, chain, ranks, fn) ==
    IF rest = <<>> THEN Append(ranks, chain)
    ELSE IF KeyOf(fn, Head(rest)) = KeyOf(fn, chain[Len(chain)])
         THEN Chains(Tail(rest), Append(chain, Head(rest)), ranks, fn)
         ELSE Chains(Tail(rest), <<Head(rest)>>, Append(ranks, chain), fn)

\* ranked(l, key=fn, reverse=reverse): sl[0] raises IndexError on an empty list
Ranked(l, fn, reverse) ==
    LET sl == Sorted(l, fn, reverse)
    IN  IF sl = <<>> THEN [raised |-> "IndexError", value |-> <<>>]
        ELSE [raised |-> "none", value |-> Chains(Tail(sl), <<sl[1]>>, <<>>, fn)]

\* multisorted(l, key, reverse)
RECURSIVE Multisorted(_, _, _)
RECURSIVE MultisortedLoop(_, _, _, _)
MultisortedLoop(chance, ms, more_keys, reverse) ==
    IF chance = <<>> THEN [raised |-> "none", value |-> ms]
    ELSE LET equals == Head(chance)
         IN  IF Len(equals) > 1 /\ Len(more_keys) >= 1
             THEN LET again == Multisorted(equals, [kind |-> "list", fns |-> more_keys],
                                           reverse)
                  IN  IF again.raised # "none" THEN again
                      ELSE MultisortedLoop(Tail(chance), ms \o again.value,
                                           more_keys, reverse)
             ELSE MultisortedLoop(Tail(chance), ms \o equals, more_keys, reverse)

Multisorted(l, key, reverse) ==
    IF key.kind = "list" /\ key.fns = <<>>
    THEN [raised |-> "IndexError", value |-> <<>>]
    ELSE LET current_key == CASE key.kind = "list" -> key.fns[1]
                              [] key.kind = "function" -> key.fns[1]
                              [] key.kind = "None" -> "identity"
             more_keys == IF key.kind = "list" THEN Tail(key.fns) ELSE <<>>
             chance == Ranked(l, current_key, reverse)
         IN  IF chance.raised # "none" THEN chance
             ELSE MultisortedLoop(chance.value, <<>>, more_keys, reverse)

\* the arguments of one call of multisorted()
InitSort ==
    \E l \in SeqsUpTo(SortItems, MaxSortLen), key \in KeyArgs, reverse \in BOOLEAN :
        /\ sorting = [l |-> l, key |-> key, reverse |-> reverse, returned |-> <<>>]
        /\ biter = NoBiter
        /\ heap = <<>>
        /\ rl = [o \in Objs |-> NewRandomList]
        /\ result = Plain("init", "multisorted", "none")
        /\ ghost = [hist |-> [o \in Objs |-> <<>>], snap |-> [o \in Objs |-> <<>>],
                    only_choice |-> [o \in Objs |-> TRUE], gen |-> NoGen]
        /\ ops = 0
        /\ dl = NoDataList
        /\ total = 0

MultisortedCall ==
    /\ result.op = "init"
    /\ LET out == Multisorted(sorting.l, sorting.key, sorting.reverse)
       IN  /\ sorting' = [sorting EXCEPT !.returned = out.value]
           /\ result' = Plain("multisorted", "multisorted", out.raised)
    /\ UNCHANGED <<heap, rl, ghost, ops, dl, total, biter>>

NextSort == MultisortedCall

SpecSort == InitSort /\ [][NextSort]_vars

\* the tuple (k1(x), ..., kn(x))
RECURSIVE KeyTuple(_, _)
KeyTuple(fns, x) ==
    IF fns = <<>> THEN <<>> ELSE KeyOf(Head(fns), x) \o KeyTuple(Tail(fns), x)

\* a stable sort of l by the tuple of the keys, as sorted() orders it
RECURSIVE TupleInserted(_, _, _, _)
TupleInserted(acc, x, fns, reverse) ==
    IF acc = <<>> THEN <<x>>
    ELSE LET before == IF reverse
                       THEN TupleLT(KeyTuple(fns, Head(acc)), KeyTuple(fns, x))
                       ELSE TupleLT(KeyTuple(fns, x), KeyTuple(fns, Head(acc)))
         IN  IF before THEN <<x>> \o acc
             ELSE <<Head(acc)>> \o TupleInserted(Tail(acc), x, fns, reverse)

RECURSIVE TupleSortedFrom(_, _, _, _)
TupleSortedFrom(acc, l, fns, reverse) ==
    IF l = <<>> THEN acc
    ELSE TupleSortedFrom(TupleInserted(acc, Head(l), fns, reverse), Tail(l), fns, reverse)

StableSortByKeys(l, key, reverse) ==
    TupleSortedFrom(<<>>, l, IF key.kind = "None" THEN <<"identity">> ELSE key.fns, reverse)

\* C12: multisorted(l, key, reverse), with no key, one key or a list of one or
\* more keys, returns the stable sort of l by the tuple of the keys with the
\* same reverse flag (so sorted(l, key, reverse) for one key or none).
C12_MultisortedIsStableSort ==
    (result.op = "multisorted" /\ ~(sorting.key.kind = "list" /\ sorting.key.fns = <<>>))
        => /\ result.raised = "none"
           /\ sorting.returned = StableSortByKeys(sorting.l, sorting.key, sorting.reverse)

(***************************************************************************)
(* RandomList.age(): what the weights are afterwards.                      *)
(***************************************************************************)
\* the factor age() owes the item in cell c: the coefficient unless its element
\* is among the last chosen ones
Factor(h, c, last, coef) == IF h[c].elem \in Range(last) THEN <<1, 1>> ELSE <<coef, 1>>

\* the weights of items all lie between 0 and 1 and sum to 1
UnitWeights(h, items) ==
    /\ SumW(h, items) = <<1, 1>>
    /\ \A c \in Range(items) : RatLE(Zero, h[c].weight) /\ RatLE(h[c].weight, <<1, 1>>)

\* h2 holds the weights of h, each multiplied by its factor, on the scale where
\* they sum to 1
AgedAndNormalized(h, h2, items, last, coef) ==
    /\ UnitWeights(h2, items)
    /\ \A c, d \in Range(items) :
          RatMul(h2[c].weight, RatMul(Factor(h, d, last, coef), h[d].weight))
            = RatMul(h2[d].weight, RatMul(Factor(h, c, last, coef), h[c].weight))

\* C13: age() on a list that has items multiplies the weights of the items not
\* among the last chosen ones by the aging coefficient, leaves the others
\* unmultiplied, and normalizes: all weights end between 0 and 1 and sum to 1;
\* choice() with always_age=True or age=True does so after the element it
\* generates.
C13_AgeMultipliesAndNormalizes ==
    [][LET r == rl["list"]
       IN  /\ (result'.op = "age" /\ r.items # <<>>) =>
                /\ result'.raised = "none"
                /\ AgedAndNormalized(heap, heap', r.items, r.last, r.aging_coef)
           /\ (/\ result'.op = "choice" /\ result'.raised = "none"
               /\ (result'.age \/ r.always_age)
               /\ result'.k >= 1) =>
                /\ UnitWeights(heap', r.items)
                /\ result'.k = 1 =>
                     AgedAndNormalized(heap, heap', r.items, result'.ret, r.aging_coef)]_vars

(***************************************************************************)
(* A RandomList and the RandomGenerator made from it, side by side.        *)
(***************************************************************************)
NextBoth ==
    \/ GetGenerator
    \/ Send
    \/ \E o \in Objs :
         \/ Choice(o)
         \/ Uniform(o)
         \/ Normalize(o)
         \/ Age(o)
         \/ RLAppend(o)
         \/ RLRemove(o)

SpecBoth == InitRL /\ [][NextBoth]_vars

\* C14: once get_generator() has returned, a call on the generator leaves the
\* items and weights of the source list as they were, and a call on the source
\* list leaves the items and weights of the generator as they were.
C14_GeneratorIndependent ==
    [][rl["gen"].exists =>
         /\ result'.obj = "gen" =>
              Values(heap', rl'["list"].items) = Values(heap, rl["list"].items)
         /\ (result'.obj = "list" /\ result'.op # "get_generator") =>
              Values(heap', rl'["gen"].items) = Values(heap, rl["gen"].items)]_vars

====
